---- MODULE Spec2Model ----
(***************************************************************************)
(* Model of file_search_server.py: the two tools search_keyword_in_file    *)
(* and search_keyword_in_directory.  Text is a sequence of one-character   *)
(* strings; a file's content is the flat sequence of its bytes.            *)
(***************************************************************************)
EXTENDS Integers, Sequences, FiniteSets, TLC

\* ---------------------------------------------------------------- bounds
MaxLines == 3
MaxFiles == 3
MaxContext == 2

\* ------------------------------------------------------- text primitives
NL == "\n"
\* a byte that is not valid UTF-8; open(..., errors='ignore') drops it
BadByte == "<ff>"

Max(a, b) == IF a >= b THEN a ELSE b
Min(a, b) == IF a <= b THEN a ELSE b

\* str.lower(), one character
LowerChar(c) ==
    CASE c = "A" -> "a"
      [] c = "B" -> "b"
      [] c = "P" -> "p"
      [] c = "Y" -> "y"
      [] OTHER -> c

\* str.lower()
Lower(s) == [i \in 1..Len(s) |-> LowerChar(s[i])]

\* the `in` operator on strings: sub occurs in s as a contiguous substring
Contains(s, sub) ==
    \E i \in 0..(Len(s) - Len(sub)) :
        \A j \in 1..Len(sub) : s[i + j] = sub[j]

\* str.endswith(suffix)
EndsWith(s, suffix) ==
    /\ Len(suffix) <= Len(s)
    /\ \A j \in 1..Len(suffix) : s[Len(s) - Len(suffix) + j] = suffix[j]

\* str.rstrip('\n'): removes every trailing newline
RECURSIVE RStripNL(_)
RStripNL(s) ==
    IF s # <<>> /\ s[Len(s)] = NL THEN RStripNL(SubSeq(s, 1, Len(s) - 1)) ELSE s

\* decoding with encoding='utf-8', errors='ignore': invalid bytes vanish
RECURSIVE Decode(_)
Decode(bytes) ==
    IF bytes = <<>> THEN <<>>
    ELSE IF Head(bytes) = BadByte THEN Decode(Tail(bytes))
    ELSE <<Head(bytes)>> \o Decode(Tail(bytes))

\* f.readlines(): the text cut after every newline, terminators kept
RECURSIVE SplitLines(_, _)
SplitLines(text, cur) ==
    IF text = <<>> THEN (IF cur = <<>> THEN <<>> ELSE <<cur>>)
    ELSE IF Head(text) = NL THEN <<cur \o <<NL>>>> \o SplitLines(Tail(text), <<>>)
    ELSE SplitLines(Tail(text), cur \o <<Head(text)>>)

ReadLines(bytes) == SplitLines(Decode(bytes), <<>>)

\* ------------------------------------------------------ the line scanner
\* src 39 / 117: search_keyword = keyword if case_sensitive else keyword.lower()
SearchKeyword(kw, cs) == IF cs THEN kw ELSE Lower(kw)

\* a mutation of LineMatches: the line is compared without lower-casing
LineMatchesRawLine(line, skw, cs) == Contains(line, skw)

\* src 50-52 / 149-150: line_content = line if case_sensitive else line.lower();
\* search_keyword in line_content
LineMatches(line, skw, cs) ==
    Contains(IF cs THEN line ELSE Lower(line), skw)

\* a mutation of Context: the window is not clipped at the file's first line
ContextUnclipped(ls, line_num, ctx) ==
    LET start_line == line_num - ctx
        end_line == Min(Len(ls), line_num + ctx)
    IN  [j \in 1..Max(0, end_line - start_line + 1) |->
            LET n == start_line + j - 1
            IN  [marker |-> IF n = line_num THEN ">>>" ELSE "   ",
                 num |-> n,
                 text |-> IF n \in 1..Len(ls) THEN RStripNL(ls[n]) ELSE <<>>]]

\* src 54-61: the context block of the match at line_num
Context(ls, line_num, ctx) ==
    LET start_line == Max(1, line_num - ctx)
        end_line == Min(Len(ls), line_num + ctx)
    IN  [j \in 1..Max(0, end_line - start_line + 1) |->
            LET n == start_line + j - 1
            IN  [marker |-> IF n = line_num THEN ">>>" ELSE "   ",
                 num |-> n,
                 text |-> RStripNL(ls[n])]]

\* a mutation of ScanFile: one match per occurrence of the keyword in the line
Occurrences(s, sub) ==
    Cardinality({i \in 0..(Len(s) - Len(sub)) :
                    \A j \in 1..Len(sub) : s[i + j] = sub[j]})

RECURSIVE ScanFilePerOccurrence(_, _, _, _, _)
ScanFilePerOccurrence(ls, skw, cs, ctx, from) ==
    IF from > Len(ls) THEN <<>>
    ELSE LET m == [line_number |-> from, line |-> RStripNL(ls[from]),
                   context |-> Context(ls, from, ctx)]
             k == Occurrences(IF cs THEN ls[from] ELSE Lower(ls[from]), skw)
         IN  [i \in 1..k |-> m] \o ScanFilePerOccurrence(ls, skw, cs, ctx, from + 1)

\* src 49-67: the loop over enumerate(lines, start=1), from line `from` on
RECURSIVE ScanFile(_, _, _, _, _)
ScanFile(ls, skw, cs, ctx, from) ==
    IF from > Len(ls) THEN <<>>
    ELSE (IF LineMatches(ls[from], skw, cs)
          THEN <<[line_number |-> from,
                  line |-> RStripNL(ls[from]),
                  context |-> Context(ls, from, ctx)]>>
          ELSE <<>>) \o ScanFile(ls, skw, cs, ctx, from + 1)

\* src 147-154: the same loop in directory search, matches carry no context
RECURSIVE ScanDirFile(_, _, _, _)
ScanDirFile(ls, skw, cs, from) ==
    IF from > Len(ls) THEN <<>>
    ELSE (IF LineMatches(ls[from], skw, cs)
          THEN <<[line_number |-> from, line |-> RStripNL(ls[from])]>>
          ELSE <<>>) \o ScanDirFile(ls, skw, cs, from + 1)

\* -------------------------------------------------------- the file filter
\* src 121-125
text_extensions ==
    { <<".", "p", "y">>, <<".", "t", "x", "t">>, <<".", "m", "d">>,
      <<".", "j", "s", "o", "n">>, <<".", "x", "m", "l">>,
      <<".", "h", "t", "m", "l">>, <<".", "c", "s", "s">>, <<".", "j", "s">>,
      <<".", "t", "s">>, <<".", "j", "a", "v", "a">>, <<".", "c", "p", "p">>,
      <<".", "c">>, <<".", "h">>, <<".", "h", "p", "p">>, <<".", "r", "s">>,
      <<".", "g", "o">>, <<".", "r", "b">>, <<".", "p", "h", "p">>,
      <<".", "s", "h">>, <<".", "y", "a", "m", "l">>, <<".", "y", "m", "l">>,
      <<".", "t", "o", "m", "l">>, <<".", "i", "n", "i">>,
      <<".", "c", "f", "g">>, <<".", "c", "o", "n", "f">> }

\* os.path.splitext(file)[1] for a bare file name: the text from the last dot
\* on, unless only dots precede that dot
SplitExt(name) ==
    LET dots == {i \in 1..Len(name) : name[i] = "."}
    IN  IF dots = {} THEN <<>>
        ELSE LET d == CHOOSE i \in dots : \A k \in dots : k <= i
             IN  IF \E k \in 1..(d - 1) : name[k] # "."
                 THEN SubSeq(name, d, Len(name))
                 ELSE <<>>

\* the optional parameter file_pattern: None, or a string
NoPattern == [given |-> FALSE, s |-> <<>>]
Pattern(str) == [given |-> TRUE, s |-> str]

\* Python truthiness of file_pattern: None and "" are both false
Truthy(fp) == fp.given /\ fp.s # <<>>

\* a mutation of Included: the pattern is compared with the extension
IncludedByExtension(name, fp) ==
    IF Truthy(fp) THEN SplitExt(name) = fp.s
    ELSE Lower(SplitExt(name)) \in text_extensions

\* src 133-141: does the walk keep this file
Included(name, fp) ==
    IF Truthy(fp) THEN EndsWith(name, fp.s)
    ELSE Lower(SplitExt(name)) \in text_extensions

\* matches_by_file[rel_path] = file_matches on a dict that keeps insertion
\* order: a sequence of <<key, value>> entries
DictSet(d, k, v) ==
    IF \E i \in 1..Len(d) : d[i].path = k
    THEN [i \in 1..Len(d) |-> IF d[i].path = k THEN [path |-> k, matches |-> v] ELSE d[i]]
    ELSE Append(d, [path |-> k, matches |-> v])

\* ------------------------------------------------------------ the reports
NoResult == [kind |-> "none", count |-> 0, body |-> <<>>]
Message(k) == [kind |-> k, count |-> 0, body |-> <<>>]

\* a mutation of FormatFile: the header is written before the emptiness test
FormatFileAlwaysFound(ms) ==
    [kind |-> "found", count |-> Len(ms),
     body |-> [i \in 1..Len(ms) |->
                  [index |-> i, line_number |-> ms[i].line_number,
                   context |-> ms[i].context]]]

\* src 69-80: "No matches found ..." or "Found N match(es) ..." and the blocks
FormatFile(ms) ==
    IF ms = <<>> THEN Message("no_match")
    ELSE [kind |-> "found", count |-> Len(ms),
          body |-> [i \in 1..Len(ms) |->
                       [index |-> i, line_number |-> ms[i].line_number,
                        context |-> ms[i].context]]]

\* src 167-179: "No matches found ..." or "Found matches ... in N file(s)"
FormatDir(mbf) ==
    IF mbf = <<>> THEN Message("no_match")
    ELSE [kind |-> "found", count |-> Len(mbf),
          body |-> [i \in 1..Len(mbf) |->
                       [path |-> mbf[i].path, count |-> Len(mbf[i].matches),
                        lines |-> mbf[i].matches]]]

\* ------------------------------------------------------ exception handlers
\* a mutation of FileExcept: the final `except Exception` clause is missing
FileExceptNoCatchAll(e) ==
    CASE e = "PermissionError" -> [kind |-> "perm", propagates |-> FALSE]
      [] e = "UnicodeDecodeError" -> [kind |-> "decode", propagates |-> FALSE]
      [] OTHER -> [kind |-> "none", propagates |-> TRUE]

\* src 82-87: the except clauses of search_keyword_in_file
FileExcept(e) ==
    CASE e = "PermissionError" -> [kind |-> "perm", propagates |-> FALSE]
      [] e = "UnicodeDecodeError" -> [kind |-> "decode", propagates |-> FALSE]
      [] OTHER -> [kind |-> "error", propagates |-> FALSE]

\* a mutation of DirFileExcept: an error other than the two named ones
\* leaves the per-file try and reaches the outer handler
DirFileExceptNamedOnly(e) ==
    IF e \in {"PermissionError", "UnicodeDecodeError"} THEN "continue" ELSE "propagate"

\* src 161-165: the per-file except clauses of search_keyword_in_directory
DirFileExcept(e) ==
    CASE e \in {"PermissionError", "UnicodeDecodeError"} -> "continue"
      [] OTHER -> "continue"

\* src 181-182: the outer except clause of search_keyword_in_directory
DirExcept(e) == [kind |-> "error", propagates |-> FALSE]

\* a mutation of WithExit: the handle is closed only when the body succeeded
WithExitOnSuccessOnly(h, e) == IF e = "none" THEN h - 1 ELSE h

\* src 45 / 144: leaving the `with open(...)` block closes the handle,
\* whether or not the body raised
WithExit(h, e) == h - 1

\* src 129: os.walk(directory_path) is called without onerror, so a
\* directory whose listing fails is skipped and the walk goes on
OnScanDirError(d) == "skip"

\* ------------------------------------------------------------- the inputs
SampleLines ==
    { <<"a", "b">>, <<"A", "B">>, <<"a", "b", "a", "b">>, <<"b", "a">>,
      <<"a", BadByte, "b">> }

Keywords == { <<"a", "b">>, <<"A", "B">> }

RECURSIVE SeqsUpTo(_, _)
SeqsUpTo(S, n) ==
    IF n = 0 THEN {<<>>}
    ELSE LET shorter == SeqsUpTo(S, n - 1)
         IN  shorter \cup {Append(q, x) : q \in {r \in shorter : Len(r) = n - 1}, x \in S}

\* the bytes of a file whose lines are ls; the last line ends with a
\* newline or not
RECURSIVE FileBytes(_, _)
FileBytes(ls, eofNewline) ==
    IF ls = <<>> THEN <<>>
    ELSE IF Len(ls) = 1 THEN (IF eofNewline THEN ls[1] \o <<NL>> ELSE ls[1])
    ELSE ls[1] \o <<NL>> \o FileBytes(Tail(ls), eofNewline)

FileContents ==
    {FileBytes(ls, nl) : ls \in SeqsUpTo(SampleLines, MaxLines), nl \in BOOLEAN}

\* the path given to search_keyword_in_file
ThePath == <<"f">>

RootDir == <<>>
SubDir == <<"s", "u", "b">>

\* the files a searched tree may hold, in the order the walk meets them
SamplePaths ==
    << [dir |-> RootDir, name |-> <<"a", ".", "p", "y">>],
       [dir |-> RootDir, name |-> <<"s", "n", "a", "p", "p", "y">>],
       [dir |-> RootDir, name |-> <<"B", ".", "P", "Y">>],
       [dir |-> SubDir, name |-> <<"a", ".", "p", "y">>],
       [dir |-> SubDir, name |-> <<"n", ".", "b", "i", "n">>] >>

SampleFiles ==
    { <<"b", "a", NL>>,
      <<"a", "b", NL>>,
      <<"A", "B", NL, "b", "a", NL, "a", "b", "a", "b">> }

FilePatterns ==
    { NoPattern, Pattern(<<>>), Pattern(<<".", "p", "y">>), Pattern(<<"p", "y">>) }

RECURSIVE SortedSeq(_)
SortedSeq(S) ==
    IF S = {} THEN <<>>
    ELSE LET m == CHOOSE i \in S : \A k \in S : i <= k
         IN  <<m>> \o SortedSeq(S \ {m})

Trees ==
    UNION { LET idx == SortedSeq(S)
            IN  { [i \in 1..Len(idx) |->
                      [dir |-> SamplePaths[idx[i]].dir,
                       name |-> SamplePaths[idx[i]].name,
                       bytes |-> c[idx[i]]]] : c \in [S -> SampleFiles] }
            : S \in {T \in SUBSET (1..Len(SamplePaths)) : Cardinality(T) <= MaxFiles} }

\* os.path.relpath(os.path.join(root, file), directory_path)
RelPath(f) == IF f.dir = RootDir THEN f.name ELSE f.dir \o <<"/">> \o f.name

\* the files of directory d, in listing order
RECURSIVE FilesIn(_, _)
FilesIn(t, d) ==
    IF t = <<>> THEN <<>>
    ELSE (IF Head(t).dir = d THEN <<Head(t)>> ELSE <<>>) \o FilesIn(Tail(t), d)

\* the sub-directories of d that the listing of d reports
SubDirsOf(t, d) ==
    IF d = RootDir /\ \E i \in 1..Len(t) : t[i].dir = SubDir THEN <<SubDir>> ELSE <<>>

NoFile == [dir |-> RootDir, name |-> <<>>, bytes |-> <<>>]

\* -------------------------------------------------------------- the state
VARIABLES
    op,              \* which tool was called: "file" or "dir"
    pc,              \* the control point of the call
    kind,            \* what the given path is on disk: "missing", "file", "dir"
    content,         \* the bytes of the file given to search_keyword_in_file
    tree,            \* the files below the directory given to directory search
    keyword, case_sensitive, context_lines, file_pattern,   \* the parameters
    search_keyword,  \* the local search_keyword
    handles,         \* number of file handles the call holds open
    lines,           \* the local lines
    exc,             \* the exception in flight inside a `with` block
    matches_by_file, \* the local matches_by_file
    todo,            \* directories os.walk has still to list
    files,           \* files of the current directory still to visit
    cur,             \* the file the inner loop is at
    listed,          \* per directory: "pending", "ok", "failed"
    scanned,         \* paths that passed the filter (an open was attempted)
    opened,          \* paths whose open() returned a handle
    readOK,          \* paths whose readlines() returned
    result,          \* the returned string
    raised           \* an exception left the call

vars == <<op, pc, kind, content, tree, keyword, case_sensitive, context_lines,
          file_pattern, search_keyword, handles, lines, exc, matches_by_file,
          todo, files, cur, listed, scanned, opened, readOK, result, raised>>

params == <<keyword, case_sensitive, context_lines, file_pattern>>
walk == <<todo, files, cur, listed>>

Locals0 ==
    /\ search_keyword = <<>>
    /\ handles = 0
    /\ lines = <<>>
    /\ exc = "none"
    /\ matches_by_file = <<>>
    /\ todo = <<>>
    /\ files = <<>>
    /\ cur = NoFile
    /\ listed = [d \in {RootDir, SubDir} |-> "pending"]
    /\ scanned = {}
    /\ opened = {}
    /\ readOK = {}
    /\ result = NoResult
    /\ raised = FALSE

\* a call of search_keyword_in_file
InitFile ==
    /\ op = "file"
    /\ pc = "f_exists"
    /\ kind \in {"missing", "dir", "file"}
    /\ content \in (IF kind = "file" THEN FileContents ELSE {<<>>})
    /\ tree = <<>>
    /\ keyword \in Keywords
    /\ case_sensitive \in BOOLEAN
    /\ context_lines \in (-1)..MaxContext
    /\ file_pattern = NoPattern
    /\ Locals0

\* a call of search_keyword_in_directory
InitDir ==
    /\ op = "dir"
    /\ pc = "d_exists"
    /\ kind \in {"missing", "dir", "file"}
    /\ content = <<>>
    /\ tree \in (IF kind = "dir" THEN Trees ELSE {<<>>})
    /\ keyword \in Keywords
    /\ case_sensitive \in BOOLEAN
    /\ context_lines = 0
    /\ file_pattern \in FilePatterns
    /\ Locals0

Init == InitFile \/ InitDir

\* ------------------------------------------------------- the environment
\* the path is removed by another process between a check and its use
FsVanish ==
    /\ pc \in {"f_exists", "f_isfile", "f_open", "d_exists", "d_isdir"}
    /\ kind # "missing"
    /\ kind' = "missing"
    /\ UNCHANGED <<op, pc, content, tree, params, search_keyword, handles, lines,
                   exc, matches_by_file, walk, scanned, opened, readOK, result, raised>>

\* what open() can do on the path
OpenOutcomes == IF kind = "missing" THEN {"FileNotFoundError"} ELSE {"ok", "PermissionError"}

\* ------------------------------------------------ search_keyword_in_file
\* the call ends in the handler chosen for exception e
FileRaise(e) ==
    LET h == FileExcept(e)
    IN  /\ pc' = "done"
        /\ raised' = h.propagates
        /\ result' = IF h.propagates THEN result ELSE Message(h.kind)

\* src 31-32
FileExists ==
    /\ pc = "f_exists"
    /\ IF ~(kind # "missing")
       THEN /\ result' = Message("not_exist")
            /\ pc' = "done"
       ELSE /\ result' = result
            /\ pc' = "f_isfile"
    /\ UNCHANGED <<op, kind, content, tree, params, search_keyword, handles, lines,
                   exc, matches_by_file, walk, scanned, opened, readOK, raised>>

\* src 35-41
FileIsFile ==
    /\ pc = "f_isfile"
    /\ IF ~(kind = "file")
       THEN /\ result' = Message("not_file")
            /\ pc' = "done"
            /\ UNCHANGED search_keyword
       ELSE /\ result' = result
            /\ search_keyword' = SearchKeyword(keyword, case_sensitive)
            /\ pc' = "f_open"
    /\ UNCHANGED <<op, kind, content, tree, params, handles, lines,
                   exc, matches_by_file, walk, scanned, opened, readOK, raised>>

\* src 45: open(file_path, 'r', encoding='utf-8', errors='ignore')
FileOpen ==
    /\ pc = "f_open"
    /\ \E out \in OpenOutcomes :
          IF out = "ok"
          THEN /\ handles' = handles + 1
               /\ opened' = opened \cup {ThePath}
               /\ pc' = "f_read"
               /\ UNCHANGED <<result, raised>>
          ELSE /\ FileRaise(out)
               /\ UNCHANGED <<handles, opened>>
    /\ scanned' = scanned \cup {ThePath}
    /\ UNCHANGED <<op, kind, content, tree, params, search_keyword, lines,
                   exc, matches_by_file, walk, readOK>>

\* src 46: lines = f.readlines(), which returns or fails with an I/O error
FileRead ==
    /\ pc = "f_read"
    /\ \E out \in {"ok", "OSError"} :
          /\ exc' = IF out = "ok" THEN "none" ELSE out
          /\ lines' = IF out = "ok" THEN ReadLines(content) ELSE lines
          /\ readOK' = IF out = "ok" THEN readOK \cup {ThePath} ELSE readOK
    /\ pc' = "f_close"
    /\ UNCHANGED <<op, kind, content, tree, params, search_keyword, handles,
                   matches_by_file, walk, scanned, opened, result, raised>>

\* src 45-46: the end of the `with` block
FileClose ==
    /\ pc = "f_close"
    /\ handles' = WithExit(handles, exc)
    /\ exc' = "none"
    /\ IF exc = "none"
       THEN /\ pc' = "f_scan"
            /\ UNCHANGED <<result, raised>>
       ELSE FileRaise(exc)
    /\ UNCHANGED <<op, kind, content, tree, params, search_keyword, lines,
                   matches_by_file, walk, scanned, opened, readOK>>

\* src 49-80: the scan and the report
FileScan ==
    /\ pc = "f_scan"
    /\ result' = FormatFile(ScanFile(lines, search_keyword, case_sensitive,
                                     context_lines, 1))
    /\ pc' = "done"
    /\ UNCHANGED <<op, kind, content, tree, params, search_keyword, handles, lines,
                   exc, matches_by_file, walk, scanned, opened, readOK, raised>>

\* ------------------------------------------- search_keyword_in_directory
\* an exception of the per-file try: skipped, or handed to the outer handler
DirFileRaise(e) ==
    IF DirFileExcept(e) = "continue"
    THEN /\ pc' = "d_walk"
         /\ UNCHANGED <<result, raised>>
    ELSE LET h == DirExcept(e)
         IN  /\ pc' = "done"
             /\ raised' = h.propagates
             /\ result' = IF h.propagates THEN result ELSE Message(h.kind)

\* src 111-112
DirExists ==
    /\ pc = "d_exists"
    /\ IF ~(kind # "missing")
       THEN /\ result' = Message("not_exist")
            /\ pc' = "done"
       ELSE /\ result' = result
            /\ pc' = "d_isdir"
    /\ UNCHANGED <<op, kind, content, tree, params, search_keyword, handles, lines,
                   exc, matches_by_file, walk, scanned, opened, readOK, raised>>

\* src 114-129: the directory test, the locals, and the start of os.walk
DirIsDir ==
    /\ pc = "d_isdir"
    /\ IF ~(kind = "dir")
       THEN /\ result' = Message("not_dir")
            /\ pc' = "done"
            /\ UNCHANGED <<search_keyword, matches_by_file, todo>>
       ELSE /\ result' = result
            /\ search_keyword' = SearchKeyword(keyword, case_sensitive)
            /\ matches_by_file' = <<>>
            /\ todo' = <<RootDir>>
            /\ pc' = "d_walk"
    /\ UNCHANGED <<op, kind, content, tree, params, handles, lines, exc,
                   files, cur, listed, scanned, opened, readOK, raised>>

\* src 129: os.walk lists the next directory; the listing succeeds or fails
DirList ==
    /\ pc = "d_walk"
    /\ files = <<>>
    /\ todo # <<>>
    /\ LET d == Head(todo)
       IN  \E ok \in BOOLEAN :
              IF ok
              THEN /\ files' = FilesIn(tree, d)
                   /\ todo' = Tail(todo) \o SubDirsOf(tree, d)
                   /\ listed' = [listed EXCEPT ![d] = "ok"]
                   /\ UNCHANGED <<pc, result, raised>>
              ELSE /\ files' = <<>>
                   /\ todo' = Tail(todo)
                   /\ listed' = [listed EXCEPT ![d] = "failed"]
                   /\ IF OnScanDirError(d) = "skip"
                      THEN UNCHANGED <<pc, result, raised>>
                      ELSE LET h == DirExcept("PermissionError")
                           IN  /\ pc' = "done"
                               /\ raised' = h.propagates
                               /\ result' = IF h.propagates THEN result
                                            ELSE Message(h.kind)
    /\ UNCHANGED <<op, kind, content, tree, params, search_keyword, handles, lines,
                   exc, matches_by_file, cur, scanned, opened, readOK>>

\* src 130-141: the next file of the directory, and the filter
DirNextFile ==
    /\ pc = "d_walk"
    /\ files # <<>>
    /\ cur' = Head(files)
    /\ files' = Tail(files)
    /\ IF Included(Head(files).name, file_pattern)
       THEN /\ pc' = "d_open"
            /\ scanned' = scanned \cup {RelPath(Head(files))}
       ELSE /\ pc' = "d_walk"
            /\ UNCHANGED scanned
    /\ UNCHANGED <<op, kind, content, tree, params, search_keyword, handles, lines,
                   exc, matches_by_file, todo, listed, opened, readOK, result, raised>>

\* src 144: open(file_path, 'r', encoding='utf-8', errors='ignore')
DirOpen ==
    /\ pc = "d_open"
    /\ \E out \in {"ok", "PermissionError"} :
          IF out = "ok"
          THEN /\ handles' = handles + 1
               /\ opened' = opened \cup {RelPath(cur)}
               /\ pc' = "d_read"
               /\ UNCHANGED <<result, raised>>
          ELSE /\ DirFileRaise(out)
               /\ UNCHANGED <<handles, opened>>
    /\ UNCHANGED <<op, kind, content, tree, params, search_keyword, lines, exc,
                   matches_by_file, walk, scanned, readOK>>

\* src 145: lines = f.readlines(), which returns or fails with an I/O error
DirRead ==
    /\ pc = "d_read"
    /\ \E out \in {"ok", "OSError"} :
          /\ exc' = IF out = "ok" THEN "none" ELSE out
          /\ lines' = IF out = "ok" THEN ReadLines(cur.bytes) ELSE lines
          /\ readOK' = IF out = "ok" THEN readOK \cup {RelPath(cur)} ELSE readOK
    /\ pc' = "d_close"
    /\ UNCHANGED <<op, kind, content, tree, params, search_keyword, handles,
                   matches_by_file, walk, scanned, opened, result, raised>>

\* src 144-145: the end of the `with` block
DirClose ==
    /\ pc = "d_close"
    /\ handles' = WithExit(handles, exc)
    /\ exc' = "none"
    /\ IF exc = "none"
       THEN /\ pc' = "d_scan"
            /\ UNCHANGED <<result, raised>>
       ELSE DirFileRaise(exc)
    /\ UNCHANGED <<op, kind, content, tree, params, search_keyword, lines,
                   matches_by_file, walk, scanned, opened, readOK>>

\* src 147-159: the scan of one file and its entry in matches_by_file
DirScan ==
    /\ pc = "d_scan"
    /\ LET file_matches == ScanDirFile(lines, search_keyword, case_sensitive, 1)
       IN  matches_by_file' = IF file_matches # <<>>
                              THEN DictSet(matches_by_file, RelPath(cur), file_matches)
                              ELSE matches_by_file
    /\ pc' = "d_walk"
    /\ UNCHANGED <<op, kind, content, tree, params, search_keyword, handles, lines,
                   exc, walk, scanned, opened, readOK, result, raised>>

\* src 167-179: the walk is over; the report
DirFormat ==
    /\ pc = "d_walk"
    /\ files = <<>>
    /\ todo = <<>>
    /\ result' = FormatDir(matches_by_file)
    /\ pc' = "done"
    /\ UNCHANGED <<op, kind, content, tree, params, search_keyword, handles, lines,
                   exc, matches_by_file, walk, scanned, opened, readOK, raised>>

Next ==
    \/ FsVanish
    \/ FileExists \/ FileIsFile \/ FileOpen \/ FileRead \/ FileClose \/ FileScan
    \/ DirExists \/ DirIsDir \/ DirList \/ DirNextFile \/ DirOpen \/ DirRead
    \/ DirClose \/ DirScan \/ DirFormat

Spec == Init /\ [][Next]_vars

\* ================================================================ claims
\* the properties below say what a match is without using the scanner
CasePairs == { <<"a", "A">>, <<"b", "B">>, <<"p", "P">>, <<"y", "Y">> }
SameLetter(x, y) == x = y \/ <<x, y>> \in CasePairs \/ <<y, x>> \in CasePairs

OccursExactly(line, kw) ==
    \E i \in 0..(Len(line) - Len(kw)) : \A j \in 1..Len(kw) : line[i + j] = kw[j]
OccursIgnoringCase(line, kw) ==
    \E i \in 0..(Len(line) - Len(kw)) : \A j \in 1..Len(kw) : SameLetter(line[i + j], kw[j])
HasKeyword(line) ==
    IF case_sensitive THEN OccursExactly(line, keyword)
    ELSE OccursIgnoringCase(line, keyword)
MatchingLines(ls) == {k \in 1..Len(ls) : HasKeyword(ls[k])}

FileDone == op = "file" /\ pc = "done"
DirDone == op = "dir" /\ pc = "done"
\* the file search read its file and reported on it
FileReported == FileDone /\ ThePath \in readOK
\* the line numbers a file-search report names
ReportedLines == {result.body[i].line_number : i \in 1..Len(result.body)}
\* the files of the tree that the finished walk met
Visited == {i \in 1..Len(tree) : listed[tree[i].dir] = "ok"}
\* the directory report's entries for path p
EntriesOf(p) == {i \in 1..Len(result.body) : result.body[i].path = p}
EntryLines(i) == {result.body[i].lines[k].line_number : k \in 1..Len(result.body[i].lines)}

\* C1: for C >= 0 the context block of the match at line n is exactly the
\* lines max(1, n - C) .. min(total_lines, n + C), once each and ascending;
\* it has 1 to 2C+1 lines, all inside 1..total_lines, and line n alone
\* carries the match marker.
C1_ContextWindow ==
    (FileDone /\ result.kind = "found" /\ context_lines >= 0) =>
        \A i \in 1..Len(result.body) :
            LET n == result.body[i].line_number
                blk == result.body[i].context
                lo == IF n - context_lines >= 1 THEN n - context_lines ELSE 1
                hi == IF n + context_lines <= Len(lines) THEN n + context_lines
                      ELSE Len(lines)
            IN  /\ Len(blk) = hi - lo + 1
                /\ \A j \in 1..Len(blk) :
                      /\ blk[j].num = lo + j - 1
                      /\ blk[j].num \in 1..Len(lines)
                      /\ blk[j].text \o <<NL>> = lines[blk[j].num]
                            \/ blk[j].text = lines[blk[j].num]
                      /\ blk[j].marker = (IF blk[j].num = n THEN ">>>" ELSE "   ")
                /\ Len(blk) >= 1
                /\ Len(blk) <= 2 * context_lines + 1
                /\ Cardinality({j \in 1..Len(blk) : blk[j].marker = ">>>"}) = 1

\* C1 witness: a match on the first line of a longer file with C >= 1, so
\* the window is cut at the top, and a match whose window is cut at the end
C1_Witness ==
    /\ FileDone /\ result.kind = "found" /\ context_lines >= 1
    /\ Len(lines) >= 3
    /\ \E i \in 1..Len(result.body) :
          result.body[i].line_number = 1 /\ Len(result.body[i].context) = 1 + context_lines
    /\ \E i \in 1..Len(result.body) :
          result.body[i].line_number = Len(lines)

\* C2: without case_sensitive a line is reported exactly when the keyword
\* occurs in it ignoring letter case; with case_sensitive exactly when it
\* occurs with the same case.  In both operations.
C2_CaseSemantics ==
    /\ FileReported =>
          \A k \in 1..Len(lines) :
              k \in ReportedLines <=>
                 (IF case_sensitive THEN OccursExactly(lines[k], keyword)
                  ELSE OccursIgnoringCase(lines[k], keyword))
    /\ DirDone =>
          \A f \in Visited :
              RelPath(tree[f]) \in readOK =>
                 LET ls == ReadLines(tree[f].bytes)
                 IN  \A k \in 1..Len(ls) :
                        (\E i \in EntriesOf(RelPath(tree[f])) : k \in EntryLines(i)) <=>
                           (IF case_sensitive THEN OccursExactly(ls[k], keyword)
                            ELSE OccursIgnoringCase(ls[k], keyword))

\* C2 witness: a case-insensitive file search reports a line that holds the
\* keyword only in another case, next to a line without the keyword
C2_Witness ==
    /\ FileReported /\ ~case_sensitive
    /\ \E k \in ReportedLines : ~OccursExactly(lines[k], keyword)
    /\ \E k \in 1..Len(lines) : k \notin ReportedLines

\* C2 second case, reached as well: a case-sensitive directory search leaves
\* out a line that holds the keyword in another case
C2_WitnessSensitive ==
    /\ DirDone /\ case_sensitive /\ result.kind = "found"
    /\ \E f \in Visited :
          /\ RelPath(tree[f]) \in readOK
          /\ \E k \in 1..Len(ReadLines(tree[f].bytes)) :
                /\ OccursIgnoringCase(ReadLines(tree[f].bytes)[k], keyword)
                /\ \A i \in EntriesOf(RelPath(tree[f])) : k \notin EntryLines(i)

DotPy == <<".", "p", "y">>
NameAPy == <<"a", ".", "p", "y">>
NameSnappy == <<"s", "n", "a", "p", "p", "y">>
\* the walk met a file of this name in the root directory
MetInRoot(name) == \E f \in Visited : tree[f].dir = RootDir /\ tree[f].name = name

\* C3 as stated: with file_pattern=".py" the scan takes in "a.py" and
\* also "snappy".
C3_AsStated ==
    (DirDone /\ file_pattern = Pattern(DotPy)
        /\ MetInRoot(NameAPy) /\ MetInRoot(NameSnappy)) =>
        (NameAPy \in scanned /\ NameSnappy \in scanned)

\* C3 amended: with file_pattern=".py" the scan takes in "a.py" and leaves
\* out "snappy", whose name does not end with ".py"; with file_pattern="py"
\* it takes in both.
C3_SuffixMatching ==
    /\ (DirDone /\ file_pattern = Pattern(DotPy)) =>
          /\ MetInRoot(NameAPy) => NameAPy \in scanned
          /\ NameSnappy \notin scanned
    /\ (DirDone /\ file_pattern = Pattern(<<"p", "y">>)) =>
          /\ MetInRoot(NameAPy) => NameAPy \in scanned
          /\ MetInRoot(NameSnappy) => NameSnappy \in scanned

\* C3 witness: a finished search with pattern ".py" over a root that holds
\* both "a.py" and "snappy"
C3_Witness ==
    /\ DirDone /\ file_pattern = Pattern(DotPy)
    /\ MetInRoot(NameAPy) /\ MetInRoot(NameSnappy)
    /\ NameAPy \in scanned

\* C4 as stated: a supplied file_pattern alone decides the scan (a file is
\* scanned iff its name ends with it); without one, a file is scanned iff
\* its lower-cased extension is in the allow-list.
C4_AsStated ==
    DirDone =>
        \A f \in Visited :
            RelPath(tree[f]) \in scanned <=>
                (IF file_pattern.given THEN EndsWith(tree[f].name, file_pattern.s)
                 ELSE Lower(SplitExt(tree[f].name)) \in text_extensions)

\* the lines of tree file f that hold the keyword
FileMatchingLines(f) == MatchingLines(ReadLines(tree[f].bytes))
\* the files whose entry the report must hold
Expected ==
    {f \in Visited : /\ RelPath(tree[f]) \in scanned
                     /\ RelPath(tree[f]) \in readOK
                     /\ FileMatchingLines(f) # {}}

\* C5: a file whose open or read fails is absent from the result, the walk
\* goes on, and the call returns a normal report whose entries are exactly
\* the included readable files with a matching line, each with all its
\* matches; no failing file makes the call an error.
C5_FailingFilesSkipped ==
    DirDone /\ listed[RootDir] # "pending" =>
        /\ ~raised
        /\ result.kind \in {"found", "no_match"}
        /\ {result.body[i].path : i \in 1..Len(result.body)}
              = {RelPath(tree[f]) : f \in Expected}
        /\ \A f \in Expected :
              /\ Cardinality(EntriesOf(RelPath(tree[f]))) = 1
              /\ \A i \in EntriesOf(RelPath(tree[f])) : EntryLines(i) = FileMatchingLines(f)
        /\ \A f \in Visited :
              (RelPath(tree[f]) \in scanned /\ RelPath(tree[f]) \notin readOK) =>
                  EntriesOf(RelPath(tree[f])) = {}

\* C5 witness: the first file of the walk failed (one at open or one at
\* read) and a later file is in the report
C5_Witness ==
    /\ DirDone /\ result.kind = "found"
    /\ \E f, g \in Visited :
          /\ f < g
          /\ RelPath(tree[f]) \in opened /\ RelPath(tree[f]) \notin readOK
          /\ FileMatchingLines(f) # {}
          /\ EntriesOf(RelPath(tree[g])) # {}

Reports ==
    {"not_exist", "not_file", "not_dir", "no_match", "found", "perm", "decode", "error"}

\* C6: whatever the file system does, each operation returns a string and
\* no exception leaves the call.
C6_NoExceptionEscapes ==
    /\ ~raised
    /\ pc = "done" => result.kind \in Reports

\* C6 witness: the file vanished after both checks, open() failed, and the
\* call returned the generic read-error string
C6_Witness ==
    /\ FileDone /\ kind = "missing" /\ ThePath \in scanned
    /\ result.kind = "error" /\ ~raised

\* C6 second case, reached as well: readlines() failed in file search
C6_WitnessReadFailure ==
    /\ FileDone /\ ThePath \in opened /\ ThePath \notin readOK
    /\ result.kind = "error" /\ ~raised

\* C7 as stated: when the root exists and is a directory but cannot be
\* listed, directory search returns the "Error searching directory" string.
C7_AsStated ==
    (DirDone /\ listed[RootDir] = "failed") => result.kind = "error"

\* C8: a "Found" header is returned only when a line matches; a file search
\* that read its file and a directory search that walked its tree return
\* the no-matches message when nothing matches (an empty directory too).
C8_FoundOnlyWithMatches ==
    /\ pc = "done" /\ result.kind = "found" =>
          /\ result.count >= 1
          /\ Len(result.body) = result.count
    /\ FileDone =>
          /\ result.kind = "found" => (ThePath \in readOK /\ MatchingLines(lines) # {})
          /\ (ThePath \in readOK /\ MatchingLines(lines) = {}) => result.kind = "no_match"
    /\ DirDone =>
          /\ result.kind = "found" =>
                /\ Expected # {}
                /\ \A i \in 1..Len(result.body) :
                      result.body[i].count >= 1 /\ result.body[i].lines # <<>>
          /\ (listed[RootDir] # "pending" /\ Expected = {}) => result.kind = "no_match"

\* C8 witness: a directory search over an empty, listable directory
C8_Witness ==
    /\ DirDone /\ tree = <<>> /\ listed[RootDir] = "ok"
    /\ result.kind = "no_match"

\* C8 second case, reached as well: a file search read a non-empty file
\* without the keyword
C8_WitnessFile ==
    /\ FileReported /\ Len(lines) >= 2 /\ MatchingLines(lines) = {}
    /\ result.kind = "no_match"

StrictlyIncreasing(q) == \A i, j \in 1..Len(q) : i < j => q[i] < q[j]

\* C9: in one file's match list the line numbers are 1-based and strictly
\* increasing, and the number of matches is the number of lines that hold
\* the keyword, however often a line holds it.  In both operations.
C9_OneMatchPerLine ==
    /\ FileReported =>
          /\ StrictlyIncreasing([i \in 1..Len(result.body) |-> result.body[i].line_number])
          /\ \A i \in 1..Len(result.body) : result.body[i].line_number \in 1..Len(lines)
          /\ result.count = Cardinality(MatchingLines(lines))
    /\ DirDone =>
          \A f \in Visited : \A i \in EntriesOf(RelPath(tree[f])) :
              LET ms == result.body[i].lines
              IN  /\ StrictlyIncreasing([k \in 1..Len(ms) |-> ms[k].line_number])
                  /\ \A k \in 1..Len(ms) :
                        ms[k].line_number \in 1..Len(ReadLines(tree[f].bytes))
                  /\ result.body[i].count = Cardinality(FileMatchingLines(f))
                  /\ Len(ms) = Cardinality(FileMatchingLines(f))

\* C9 witness: a reported line holds the keyword twice and is counted once
C9_Witness ==
    /\ FileReported /\ result.kind = "found" /\ result.count >= 2
    /\ \E k \in ReportedLines :
          Cardinality({i \in 0..(Len(lines[k]) - Len(keyword)) :
                          \A j \in 1..Len(keyword) :
                              SameLetter(lines[k][i + j], keyword[j])}) >= 2

\* C10: every handle opened is closed before the operation returns, on
\* every exit path; directory search never holds more than one handle and
\* holds none between two files.
C10_HandlesClosed ==
    /\ handles \in {0, 1}
    /\ pc = "done" => handles = 0
    /\ pc \in {"d_walk", "d_open", "f_scan", "d_scan"} => handles = 0
    /\ handles = 1 => pc \in {"f_read", "f_close", "d_read", "d_close"}

\* C10 witness: a directory search returned after one file's read failed
\* behind a successful open and another file was read
C10_Witness ==
    /\ DirDone /\ handles = 0
    /\ \E p \in opened : p \notin readOK
    /\ readOK # {}

\* C10 second case, reached as well: file search returned after a read failure
C10_WitnessFile ==
    /\ FileDone /\ handles = 0
    /\ ThePath \in opened /\ ThePath \notin readOK

====
